---- MODULE Spec2Model ----
(***************************************************************************)
(* Pipeline freshness / health evaluation of the CryptoPrism DB monitor.   *)
(*                                                                         *)
(* The database is the environment.  What a table holds and what a query   *)
(* answers (a value, SQL NULL, or an exception) is drawn when the query    *)
(* is sent; truth_rows and truth_latest accumulate what the member tables  *)
(* of the stage under check really hold.                                   *)
(* Python values are tagged records [k, v]: k is the Python type           *)
(* ("none", "dt" datetime, "str" text or date, "num" int/Decimal).         *)
(***************************************************************************)
EXTENDS Integers, Sequences, FiniteSets, TLC

\* ---- bounds -------------------------------------------------------------
MaxTables == 2
MaxStages == 1
MaxRows == 1
MaxStamp == 2
MaxList == 2
MaxKeys == 2
MaxAge == 1700
MaxClock == 7300
MaxCount == 15
MaxTimeout == 2
MaxIssues == 3
MaxThreshold == 2
MaxTicks == 26
MaxTtl == 1
MaxCacheClock == 2

\* ---- Python / SQL values --------------------------------------------------
None   == [k |-> "none", v |-> 0]
Raise  == [k |-> "raise", v |-> 0]          \* the query raised (timeout, no such column, no connection)
StrVal == [k |-> "str", v |-> 0]            \* text or datetime.date: has .replace, rejects tzinfo=
NumVal == [k |-> "num", v |-> 1]            \* int / Decimal: no .replace, no .isoformat
Dt(t)  == [k |-> "dt", v |-> t]             \* datetime
IntVal(n) == [k |-> "int", v |-> n]

Stamps == {Dt(t) : t \in 1..MaxStamp}
\* what SELECT MAX(col) can answer
ColAns == {Raise, None, StrVal, NumVal} \cup Stamps
\* values the local latest_update of check_pipeline_stage can hold
Latest == {None, NumVal} \cup Stamps

timestamp_cols == <<"updated_at", "created_at", "timestamp", "last_updated", "date">>
NCols == Len(timestamp_cols)
ColProfiles == [1..NCols -> ColAns]

\* Python truthiness: None and 0 are falsy
Truthy(x) == x.k # "none" /\ ~(x.k = "int" /\ x.v = 0)

\* config 'query_timeout': int(os.getenv('QUERY_TIMEOUT', '15')), in seconds
DefaultQueryTimeout == 15

\* DashboardConfig.get: str(self._config.get(key, default)); the str of a
\* number n is [k |-> "str", v |-> n]
config_get(stored) == [k |-> "str", v |-> stored]

\* if timeout is None: timeout = config.get('query_timeout', 30)
resolve_timeout(timeout, query_timeout) ==
    IF timeout = None THEN config_get(query_timeout) ELSE timeout

\* timeout * 1000: a product for an int; for a str, the str repeated 1000 times
times_1000(value) ==
    IF value.k = "int" THEN IntVal(value.v * 1000)
    ELSE [k |-> "str_repeated", v |-> value.v]

\* SET statement_timeout = <value>: PostgreSQL takes an integer number of
\* milliseconds and rejects the digits of a number written 1000 times over
set_accepted(value) == value.k = "int"

\* DatabaseService.execute_query with no timeout argument, as far as its
\* caller sees it: the query runs, then the SET; the rows come back only if
\* neither raised, otherwise the except re-raises SQLAlchemyError
execute_query_default(ans, query_timeout) ==
    IF ~set_accepted(times_1000(resolve_timeout(None, query_timeout))) THEN Raise
    ELSE IF ans.k = "raise" THEN Raise
    ELSE ans

\* DatabaseService.execute_query_single: results = self.execute_query(query, params)
execute_query_single(ans, query_timeout) == execute_query_default(ans, query_timeout)

\* DatabaseService.execute_scalar: any exception is turned into None
execute_scalar_mut(ans) == ans
execute_scalar(ans) == IF ans.k = "raise" THEN None ELSE ans

\* DatabaseService.get_table_exists: any exception is turned into False
get_table_exists(present, raises) == IF raises THEN FALSE ELSE present

\* DatabaseService.get_table_count: execute_scalar(...) or 0
get_table_count(ans) ==
    LET r == execute_scalar(ans) IN IF Truthy(r) THEN r.v ELSE 0

\* result.replace(tzinfo=None) if hasattr(result, 'replace') else result
\* "TypeError" stands for the exception str.replace / date.replace raise
has_replace(x) == x.k \in {"dt", "str"}
strip_tz(x) == IF ~has_replace(x) THEN x
               ELSE IF x.k = "dt" THEN x ELSE [k |-> "TypeError", v |-> 0]

\* result > latest_update raises TypeError across types
comparable(a, b) == a.k = b.k

\* ---- the candidate-column loop of check_pipeline_stage -------------------
\* One candidate: what the body of the inner try does with the answer.
\*   "next"  : falsy result, or an exception swallowed by the bare except
\*   "break" : a value was accepted; latest is the new latest_update
stage_candidate(ans, latest_update) ==
    LET result == execute_scalar(ans) IN
    IF ~Truthy(result) THEN [go |-> "next", latest |-> latest_update]
    ELSE LET r == strip_tz(result) IN
         IF r.k = "TypeError" THEN [go |-> "next", latest |-> latest_update]
         ELSE IF latest_update = None THEN [go |-> "break", latest |-> r]
         ELSE IF ~comparable(r, latest_update)
              THEN [go |-> "next", latest |-> latest_update]
         ELSE IF r.v > latest_update.v THEN [go |-> "break", latest |-> r]
         ELSE [go |-> "break", latest |-> latest_update]

\* for col in timestamp_cols: ... ; qlog is the sequence of columns queried
RECURSIVE stage_timestamp_loop(_, _, _, _)
stage_timestamp_loop(cols, c, latest_update, qlog) ==
    IF c > NCols THEN [latest |-> latest_update, qlog |-> qlog, hit |-> 0]
    ELSE LET step == stage_candidate(cols[c], latest_update)
             q == Append(qlog, timestamp_cols[c]) IN
         IF step.go = "break"
         THEN [latest |-> step.latest, qlog |-> q, hit |-> c]
         ELSE stage_timestamp_loop(cols, c + 1, latest_update, q)

\* ---- DatabaseService._get_latest_timestamp -------------------------------
svc_candidate(ans) ==
    LET result == execute_scalar(ans) IN
    IF Truthy(result)
    THEN [go |-> "return", ret |-> IF result.k = "dt" THEN result ELSE None]
    ELSE [go |-> "next", ret |-> None]

RECURSIVE get_latest_timestamp(_, _, _)
get_latest_timestamp(cols, c, qlog) ==
    IF c > NCols THEN [ret |-> None, qlog |-> qlog, hit |-> 0]
    ELSE LET step == svc_candidate(cols[c])
             q == Append(qlog, timestamp_cols[c]) IN
         IF step.go = "return"
         THEN [ret |-> step.ret, qlog |-> q, hit |-> c]
         ELSE get_latest_timestamp(cols, c + 1, q)

\* ---- utils.helpers ---------------------------------------------------------
\* Times are in hundredths of an hour; an age is a number of tenths of an hour.
\* round(age, 1): to the nearest tenth, an exact half going to the even tenth.
round_tenths(h) ==
    LET q == h \div 10
        r == h % 10
    IN IF r < 5 THEN q ELSE IF r > 5 THEN q + 1 ELSE IF q % 2 = 0 THEN q ELSE q + 1

\* get_age_hours: None for None and for anything datetime arithmetic rejects
get_age_hours(timestamp, now) ==
    IF timestamp.k = "dt" THEN [k |-> "float", v |-> round_tenths(now - timestamp.v)]
    ELSE None

get_freshness_status_mut(age_hours) ==
    IF age_hours = None THEN "Unknown"
    ELSE IF age_hours.v <= 10 THEN "Very Fresh (< 1h)"
    ELSE IF age_hours.v <= 60 THEN "Fresh (< 6h)"
    ELSE IF age_hours.v <= 240 THEN "Recent (< 24h)"
    ELSE IF age_hours.v <= 720 THEN "Stale (2-3 days)"
    ELSE IF age_hours.v <= 1680 THEN "Old (3-7 days)"
    ELSE "Very Old (> 7 days)"
get_freshness_status(age_hours) ==
    IF age_hours = None THEN "Unknown"
    ELSE IF age_hours.v < 10 THEN "Very Fresh (< 1h)"
    ELSE IF age_hours.v < 60 THEN "Fresh (< 6h)"
    ELSE IF age_hours.v < 240 THEN "Recent (< 24h)"
    ELSE IF age_hours.v < 720 THEN "Stale (2-3 days)"
    ELSE IF age_hours.v < 1680 THEN "Old (3-7 days)"
    ELSE "Very Old (> 7 days)"

\* ---- DatabaseService._calculate_table_health --------------------------------
\* hours_old is not rounded: 24 h and 72 h are 2400 and 7200 hundredths
calculate_table_health(count, last_update, clock) ==
    IF count = 0 THEN "Warning"
    ELSE IF Truthy(last_update)
         THEN (IF clock - last_update.v < 2400 THEN "Good"
               ELSE IF clock - last_update.v < 7200 THEN "Warning"
               ELSE "Critical")
         ELSE "Unknown"

\* the dicts _get_tables_status appends (table_name and table_size left out)
svc_missing_record_mut(count) ==
    [status |-> "Missing", row_count |-> count, last_update |-> None, health |-> "Missing"]
svc_missing_record(count) ==
    [status |-> "Missing", row_count |-> count, last_update |-> None, health |-> "Critical"]

svc_active_record(count, last_update, clock) ==
    [status |-> "Active", row_count |-> count, last_update |-> last_update,
     health |-> calculate_table_health(count, last_update, clock)]

\* ---- ground truth of the database -----------------------------------------
\* A table as the database holds it; a table that is absent holds no rows.
TableTruth == {[present |-> FALSE, rows |-> 0]} \cup [present : {TRUE}, rows : 0..MaxRows]

\* what SELECT MAX(col) can answer on a table with that many rows: the
\* maximum over no rows is NULL
AnswersOf(rows) == IF rows = 0 THEN {Raise, None} ELSE ColAns

Max2(a, b) == IF a >= b THEN a ELSE b

VARIABLES
    connected,        \* the database answers at all during this pass
    now,              \* datetime.now() of the pass
    page,             \* the page rendered: "pipeline" or "signals"
    nstages,          \* pipeline_tables: the number of stages
    cur_size,         \* member tables of the stage (tables of the list) under check
    pc,               \* position in the page / check_pipeline_stage / _get_tables_status
    idx,              \* tables the for-loop has taken so far
    stage_records, latest_update, stage_health,    \* locals of check_pipeline_stage
    record_count,     \* local: the count of the table under probe
    ncol,             \* candidate columns queried for the table under probe
    tbl,              \* ground truth of the table under probe
    probe,            \* what the existence and count checks of that table did
    qlog,             \* queries sent for that table, in order
    seen,             \* kinds of member table the loop has met in this stage
    tbl_ts,           \* first datetime a candidate of the table under probe answered
    nfail,            \* candidate queries of the table under probe that raised
    truth_rows,       \* rows held by the existing member tables of the stage
    truth_latest,     \* newest datetime held by the member tables of the stage
    stage_status,     \* stage_status = check_pipeline_stage(...): the last dict returned
    pipeline_status,  \* the list of stage results, with the fields the summary reads
    summary,          \* metrics of render_pipeline_status_summary
    flows_done,       \* flow checks rendered so far
    flow_shown,       \* what the last render_data_flow_check put on the page
    page_error,       \* st.error("Pipeline monitoring failed ...") was shown
    results,          \* the list _get_tables_status builds
    t_pc, t_cols, t_prev, t_stage, t_svc,  \* the candidate loops run on one whole table
    fn_pc, fn_in, fn_out                   \* one call of a function: position, arguments, result

env == <<connected, now, page, nstages>>
stage_locals == <<idx, stage_records, latest_update, stage_health, record_count, ncol,
                  tbl, probe, qlog, seen, tbl_ts, nfail, truth_rows, truth_latest>>
page_vars == <<cur_size, pc, stage_status, pipeline_status, summary, flows_done,
               flow_shown, page_error, results>>
fn_vars == <<fn_pc, fn_in, fn_out>>
ts_vars == <<t_pc, t_cols, t_prev, t_stage, t_svc, fn_vars>>
vars == <<env, stage_locals, page_vars, ts_vars>>

NoProbe == [exists |-> FALSE, exists_raised |-> FALSE, count_raised |-> FALSE]
NoTable == [present |-> FALSE, rows |-> 0]
NoStatus == [total_records |-> 0, last_update |-> None, freshness |-> "Unknown",
             health |-> "Unknown", tables |-> 0]
NoSummary == [done |-> FALSE, active_stages |-> 0, total_stages |-> 0,
              total_records |-> 0, health_score |-> [n |-> 0, d |-> 1]]
\* no flow rate was computed or shown (a rate is a fraction n/d with d > 0)
NoRate == [n |-> 0, d |-> 0]
NoFlow == [shown |-> "none", source_count |-> 0, target_count |-> 0,
           flow_rate |-> NoRate, band |-> "none"]
NoStageOut == [latest |-> None, qlog |-> <<>>, hit |-> 0]
NoSvcOut == [ret |-> None, qlog |-> <<>>, hit |-> 0]

\* the locals of check_pipeline_stage at its entry (lines 148-152)
LocalsInit ==
    /\ idx = 0
    /\ stage_records = 0
    /\ latest_update = None
    /\ stage_health = "Unknown"
    /\ record_count = 0
    /\ ncol = 0
    /\ tbl = NoTable
    /\ probe = NoProbe
    /\ qlog = <<>>
    /\ seen = {}
    /\ tbl_ts = 0
    /\ nfail = 0
    /\ truth_rows = 0
    /\ truth_latest = 0

\* the same, as the effect of entering the call (or of leaving its scope)
LocalsReset ==
    /\ idx' = 0
    /\ stage_records' = 0
    /\ latest_update' = None
    /\ stage_health' = "Unknown"
    /\ record_count' = 0
    /\ ncol' = 0
    /\ tbl' = NoTable
    /\ probe' = NoProbe
    /\ qlog' = <<>>
    /\ seen' = {}
    /\ tbl_ts' = 0
    /\ nfail' = 0
    /\ truth_rows' = 0
    /\ truth_latest' = 0

PageIdle ==
    /\ cur_size = 0
    /\ stage_status = NoStatus
    /\ pipeline_status = <<>>
    /\ summary = NoSummary
    /\ flows_done = 0
    /\ flow_shown = NoFlow
    /\ page_error = FALSE
    /\ results = <<>>

\* no function is called on its own
FnIdle ==
    /\ fn_pc = "off"
    /\ fn_in = None
    /\ fn_out = None

TsIdle ==
    /\ t_pc = "off"
    /\ t_cols = [c \in 1..NCols |-> None]
    /\ t_prev = None
    /\ t_stage = NoStageOut
    /\ t_svc = NoSvcOut
    /\ FnIdle

\* a page of the dashboard is about to be rendered
Init ==
    /\ connected \in BOOLEAN
    /\ now = MaxStamp
    /\ page \in {"pipeline", "signals"}
    /\ nstages \in 1..MaxStages
    /\ pc = IF page = "pipeline" THEN "stages" ELSE "svc"
    /\ LocalsInit
    /\ PageIdle
    /\ TsIdle

\* ---- check_pipeline_stage ---------------------------------------------------
\* for stage_name, tables in pipeline_tables.items(): check_pipeline_stage(...)
\* entry of the call with the next stage's tables: the locals are initialised
EnterStage ==
    /\ pc = "stages"
    /\ cur_size' \in 1..MaxTables
    /\ LocalsReset
    /\ pc' = "tables"
    /\ UNCHANGED <<env, ts_vars, stage_status, pipeline_status, summary, flows_done,
                   flow_shown, page_error, results>>

\* else: stage_health = 'Missing'
health_on_missing(previous) == "Missing"

\* if record_count > 0: 'Active' (and break) else 'Inactive'
health_of_count(count) == IF count > 0 THEN "Active" ELSE "Inactive"

\* the break that follows stage_health = 'Active'
breaks_mut(count) == FALSE
breaks(count) == count > 0

\* stage_records += record_count
add_records(stage_total, count) == stage_total + count

\* The head of one iteration over the member tables (lines 154-162, 186-187):
\* get_table_exists, and for an existing table get_table_count,
\* get_table_size and stage_records += record_count.  No call of the loop
\* body can raise into its except clause (lines 189-191): get_table_exists,
\* get_table_count, get_table_size and execute_scalar catch every exception
\* and the candidate loop has its own bare except.
ProbeTable ==
    /\ pc = "tables"
    /\ \E t \in TableTruth,
          exists_raises \in (IF connected THEN BOOLEAN ELSE {TRUE}),
          count_raises \in BOOLEAN :
          LET exists == get_table_exists(t.present, exists_raises) IN
          /\ tbl' = t
          /\ truth_rows' = truth_rows + t.rows
          /\ IF ~exists
             THEN /\ ~count_raises
                  /\ stage_health' = health_on_missing(stage_health)
                  /\ qlog' = <<"exists">>
                  /\ probe' = [exists |-> FALSE, exists_raised |-> exists_raises,
                               count_raised |-> FALSE]
                  /\ seen' = seen \cup {IF exists_raises THEN "errored" ELSE "missing"}
                  /\ pc' = IF idx + 1 = cur_size THEN "return" ELSE "tables"
                  /\ UNCHANGED <<stage_records, record_count>>
             ELSE LET count == get_table_count(IF count_raises THEN Raise
                                               ELSE IntVal(t.rows))
                  IN /\ record_count' = count
                     /\ stage_records' = add_records(stage_records, count)
                     /\ qlog' = <<"exists", "count", "size">>
                     /\ probe' = [exists |-> TRUE, exists_raised |-> FALSE,
                                  count_raised |-> count_raises]
                     /\ pc' = "cols"
                     /\ UNCHANGED <<stage_health, seen>>
    /\ idx' = idx + 1
    /\ ncol' = 0
    /\ tbl_ts' = 0
    /\ nfail' = 0
    /\ UNCHANGED <<latest_update, truth_latest>>
    /\ UNCHANGED <<env, ts_vars, cur_size, stage_status, pipeline_status, summary,
                   flows_done, flow_shown, page_error, results>>

\* One candidate of `for col in timestamp_cols` (lines 167-177): the query,
\* and what the body of the try does with its answer.
ProbeColumn ==
    /\ pc = "cols"
    /\ \E ans \in AnswersOf(tbl.rows) :
          LET step == stage_candidate(ans, latest_update) IN
          /\ latest_update' = step.latest
          /\ tbl_ts' = IF tbl_ts = 0 /\ ans.k = "dt" THEN ans.v ELSE tbl_ts
          /\ nfail' = IF ans.k = "raise" THEN nfail + 1 ELSE nfail
          /\ pc' = IF step.go = "break" \/ ncol + 1 = NCols THEN "health" ELSE "cols"
    /\ ncol' = ncol + 1
    /\ qlog' = Append(qlog, timestamp_cols[ncol + 1])
    /\ UNCHANGED <<idx, stage_records, stage_health, record_count, tbl, probe, seen,
                   truth_rows, truth_latest>>
    /\ UNCHANGED <<env, ts_vars, cur_size, stage_status, pipeline_status, summary,
                   flows_done, flow_shown, page_error, results>>

\* "Try to determine stage health" (lines 179-184).  When the break leaves
\* member tables untaken, what they hold is drawn here: rest_rows rows in
\* all, rest_ts their newest datetime.
DecideHealth ==
    /\ pc = "health"
    /\ stage_health' = health_of_count(record_count)
    /\ seen' = seen \cup {IF probe.count_raised THEN "errored"
                          ELSE IF record_count > 0 THEN "active" ELSE "empty"}
    /\ LET left == cur_size - idx
           skipped == IF breaks(record_count) THEN left ELSE 0
       IN /\ pc' = IF left = 0 \/ breaks(record_count) THEN "return" ELSE "tables"
          /\ \E rest_rows \in 0..(skipped * MaxRows), rest_ts \in 0..MaxStamp :
                /\ rest_rows = 0 => rest_ts = 0
                /\ truth_rows' = truth_rows + rest_rows
                /\ truth_latest' = Max2(Max2(truth_latest, tbl_ts), rest_ts)
    /\ UNCHANGED <<idx, stage_records, latest_update, record_count, ncol, tbl, probe,
                   qlog, tbl_ts, nfail>>
    /\ UNCHANGED <<env, ts_vars, cur_size, stage_status, pipeline_status, summary,
                   flows_done, flow_shown, page_error, results>>

\* latest_update.isoformat(): only a datetime has it
has_isoformat(x) == x.k = "dt"

\* the dict check_pipeline_stage returns (lines 193-208)
stage_result(records, latest, health, ntables, clock) ==
    [total_records |-> records,
     last_update |-> IF Truthy(latest) THEN latest ELSE None,
     freshness |-> IF Truthy(latest)
                   THEN get_freshness_status(get_age_hours(latest, clock))
                   ELSE "Unknown",
     health |-> health,
     tables |-> ntables]

\* the fields of a stage result that render_pipeline_status_summary reads
summary_fields(status) ==
    [health |-> status.health, total_records |-> status.total_records]

\* the tail of check_pipeline_stage, and pipeline_status.append(stage_status)
ReturnStage ==
    /\ pc = "return"
    /\ ~Truthy(latest_update) \/ has_isoformat(latest_update)
    /\ stage_status' = stage_result(stage_records, latest_update, stage_health,
                                    cur_size, now)
    /\ pipeline_status' = Append(pipeline_status, summary_fields(stage_status'))
    /\ pc' = IF Len(pipeline_status) + 1 = nstages THEN "summary" ELSE "stages"
    /\ UNCHANGED <<env, ts_vars, stage_locals, cur_size, summary, flows_done, flow_shown,
                   page_error, results>>

\* latest_update is truthy and has no isoformat: the AttributeError leaves
\* check_pipeline_stage and is caught by the except of the page (lines 142-143)
StageRaises ==
    /\ pc = "return"
    /\ Truthy(latest_update) /\ ~has_isoformat(latest_update)
    /\ pc' = "failed"
    /\ page_error' = TRUE
    /\ UNCHANGED <<env, ts_vars, stage_locals, cur_size, stage_status, pipeline_status,
                   summary, flows_done, flow_shown, results>>

\* ---- render_pipeline_status_summary ---------------------------------------
RECURSIVE count_where(_, _)
count_where(statuses, label) ==
    IF statuses = <<>> THEN 0
    ELSE (IF Head(statuses).health = label THEN 1 ELSE 0)
         + count_where(Tail(statuses), label)

RECURSIVE sum_records(_)
sum_records(statuses) ==
    IF statuses = <<>> THEN 0
    ELSE Head(statuses).total_records + sum_records(Tail(statuses))

\* sum(1 for s in pipeline_status if s['health'] == 'Active')
active_stages_of_mut(statuses) == Len(statuses) - count_where(statuses, "Missing")
active_stages_of(statuses) == count_where(statuses, "Active")

\* (active_stages / total_stages) * 100 if total_stages > 0 else 0, as a fraction
health_score_of(active_stages, total_stages) ==
    IF total_stages > 0 THEN [n |-> active_stages * 100, d |-> total_stages]
    ELSE [n |-> 0, d |-> 1]

render_pipeline_status_summary(statuses) ==
    [done |-> TRUE,
     active_stages |-> active_stages_of(statuses),
     total_stages |-> Len(statuses),
     total_records |-> sum_records(statuses),
     health_score |-> health_score_of(active_stages_of(statuses), Len(statuses))]

\* render_pipeline_status_summary(pipeline_status); the locals of the last
\* check_pipeline_stage call and stage_status are dead from here on
RenderSummary ==
    /\ pc = "summary"
    /\ summary' = render_pipeline_status_summary(pipeline_status)
    /\ pc' = "flows"
    /\ LocalsReset
    /\ stage_status' = NoStatus
    /\ UNCHANGED <<env, ts_vars, cur_size, pipeline_status, flows_done, flow_shown,
                   page_error, results>>

\* ---- render_data_flow_check -------------------------------------------------
\* flow_checks: the FROM table, the LEFT JOINed tables in SELECT order, and the
\* declared source_table / target_table of each check
flow_checks ==
    << [name |-> "Listings -> OHLCV Flow",
        from |-> "crypto_listings_latest_1000", joins |-> <<"1K_coins_ohlcv">>,
        source_table |-> "crypto_listings_latest_1000", target_table |-> "1K_coins_ohlcv"],
       [name |-> "OHLCV -> FE_DMV_ALL Flow",
        from |-> "1K_coins_ohlcv", joins |-> <<"FE_DMV_ALL">>,
        source_table |-> "1K_coins_ohlcv", target_table |-> "FE_DMV_ALL"],
       [name |-> "FE Tables Internal Flow",
        from |-> "FE_MOMENTUM_SIGNALS", joins |-> <<"FE_OSCILLATORS_SIGNALS", "FE_DMV_ALL">>,
        source_table |-> "FE_MOMENTUM_SIGNALS", target_table |-> "FE_DMV_ALL"] >>

\* the values of a join column: keys, and SQL NULL (0)
Keys == 1..MaxKeys
NullKey == 0
KeyValues == Keys \cup {NullKey}
FlowTables == {"crypto_listings_latest_1000", "1K_coins_ohlcv", "FE_DMV_ALL",
               "FE_MOMENTUM_SIGNALS", "FE_OSCILLATORS_SIGNALS"}

\* ON f.key = j.key: NULL equals nothing
join_on_mut(f_key, j_key) == TRUE
join_on(f_key, j_key) == f_key # NullKey /\ j_key # NullKey /\ f_key = j_key

\* f LEFT JOIN j ON f.key = j.key, as the pairs <<f.key, j.key>> it yields:
\* the matches, and each unmatched row of f with a NULL beside it
left_join(f_keys, j_keys) ==
    {p \in f_keys \X j_keys : join_on(p[1], p[2])}
    \cup {<<f, NullKey>> : f \in {x \in f_keys : \A j \in j_keys : ~join_on(x, j)}}

\* COUNT(DISTINCT col): the distinct values that are not NULL
count_distinct(values) == Cardinality(values \ {NullKey})

\* the one row of SELECT COUNT(DISTINCT f.key), COUNT(DISTINCT j1.key), ...
\* FROM f LEFT JOIN j1 ON f.key = j1.key ...; keyset: table -> the values of
\* its join column.  Each join is on a key of f, so the j columns are
\* those of the separate joins.
flow_query_row(fc, keyset) ==
    <<count_distinct(keyset[fc.from])>> \o
    [m \in 1..Len(fc.joins) |->
        count_distinct({p[2] : p \in left_join(keyset[fc.from], keyset[fc.joins[m]])})]

\* what 'source_table' and 'target_table' of the check declare: the distinct
\* keys of the source table, and those of them the target table holds too
declared_counts(fc, keyset) ==
    [source_count |-> count_distinct(keyset[fc.source_table]),
     target_count |-> count_distinct(keyset[fc.source_table] \cap keyset[fc.target_table])]

\* if flow_rate > 90 / elif flow_rate > 50 / else, on the fraction n/d
flow_band_mut(rate) ==
    IF rate.n >= 90 * rate.d THEN "Good Flow"
    ELSE IF rate.n >= 50 * rate.d THEN "Moderate Flow"
    ELSE "Poor Flow"
flow_band(rate) ==
    IF rate.n > 90 * rate.d THEN "Good Flow"
    ELSE IF rate.n > 50 * rate.d THEN "Moderate Flow"
    ELSE "Poor Flow"

\* if source_count > 0:
has_source_mut(source_count) == TRUE
has_source(source_count) == source_count > 0

\* flow_rate = (target_count / source_count) * 100, as the fraction n/d;
\* the metric shows it as it is, above 100 too (line 261)
flow_rate_of_mut(source_count, target_count) ==
    IF target_count > source_count THEN [n |-> 100, d |-> 1]
    ELSE [n |-> target_count * 100, d |-> source_count]
flow_rate_of(source_count, target_count) ==
    [n |-> target_count * 100, d |-> source_count]

\* except Exception: st.error("Flow analysis failed: ...") (lines 276-278)
flow_failed(source_count, target_count) ==
    [shown |-> "Flow analysis failed", source_count |-> source_count,
     target_count |-> target_count, flow_rate |-> NoRate, band |-> "none"]

\* answer: Raise when execute_query_single raised, else [k |-> "row", v |-> the row]
\* A division by a source_count of 0 raises ZeroDivisionError inside the try.
render_data_flow_check(answer) ==
    IF answer.k = "raise"
    THEN flow_failed(0, 0)
    ELSE LET source_count == answer.v[1]
             target_count == answer.v[2]
         IN IF has_source(source_count)
            THEN IF source_count = 0
                 THEN flow_failed(source_count, target_count)
                 ELSE LET flow_rate == flow_rate_of(source_count, target_count)
                      IN [shown |-> "Flow Rate", source_count |-> source_count,
                          target_count |-> target_count, flow_rate |-> flow_rate,
                          band |-> flow_band(flow_rate)]
            ELSE [shown |-> "No source data to analyze", source_count |-> source_count,
                  target_count |-> target_count, flow_rate |-> NoRate,
                  band |-> "none"]

\* the values the join column of each table of a flow check's query may hold
KeySets(fc) ==
    {[tb \in FlowTables |->
         IF tb = fc.from THEN from_keys
         ELSE UNION {join_keys[m] : m \in {j \in 1..Len(fc.joins) : fc.joins[j] = tb}}] :
       from_keys \in SUBSET KeyValues, join_keys \in [1..Len(fc.joins) -> SUBSET KeyValues]}

\* What execute_query_single(flow_check['query']) can come back with: an
\* exception, or the row of the query on some content of its tables.  When
\* even an answered query comes back as an exception, every call raises.
flow_answers(fc, can_answer, query_timeout) ==
    IF ~can_answer \/ execute_query_single([k |-> "row", v |-> <<0, 0>>], query_timeout) = Raise
    THEN {Raise}
    ELSE {Raise} \cup {execute_query_single([k |-> "row", v |-> flow_query_row(fc, keyset)],
                                            query_timeout) : keyset \in KeySets(fc)}

\* for flow_check in flow_checks: render_data_flow_check(flow_check), with
\* result = db_service.execute_query_single(flow_check['query']) (line 251)
RenderFlowCheck ==
    /\ pc = "flows"
    /\ \E ans \in flow_answers(flow_checks[flows_done + 1], connected, DefaultQueryTimeout) :
          flow_shown' = render_data_flow_check(ans)
    /\ flows_done' = flows_done + 1
    /\ pc' = IF flows_done + 1 = Len(flow_checks) THEN "done" ELSE "flows"
    /\ UNCHANGED <<env, ts_vars, stage_locals, cur_size, stage_status, pipeline_status,
                   summary, page_error, results>>

\* ---- DatabaseService._get_tables_status ---------------------------------------
\* get_fe_tables_status(): _get_tables_status(fe_tables), results = []
SvcEnter ==
    /\ pc = "svc"
    /\ cur_size' \in 1..MaxTables
    /\ results' = <<>>
    /\ pc' = "svc_tables"
    /\ UNCHANGED <<env, ts_vars, stage_locals, stage_status, pipeline_status, summary,
                   flows_done, flow_shown, page_error>>

\* The head of one iteration (lines 307-312, 324-332): get_table_exists, and
\* for an existing table get_table_count and get_table_size.  The except
\* clause (lines 334-343) is never entered: every call of the body catches
\* its own exceptions.
SvcProbeTable ==
    /\ pc = "svc_tables"
    /\ \E t \in TableTruth,
          exists_raises \in (IF connected THEN BOOLEAN ELSE {TRUE}),
          count_raises \in BOOLEAN :
          LET exists == get_table_exists(t.present, exists_raises) IN
          /\ tbl' = t
          /\ IF ~exists
             THEN /\ ~count_raises
                  /\ results' = Append(results, svc_missing_record(0))
                  /\ qlog' = <<"exists">>
                  /\ probe' = [exists |-> FALSE, exists_raised |-> exists_raises,
                               count_raised |-> FALSE]
                  /\ pc' = IF idx + 1 = cur_size THEN "svc_done" ELSE "svc_tables"
                  /\ UNCHANGED record_count
             ELSE /\ record_count' = get_table_count(IF count_raises THEN Raise
                                                     ELSE IntVal(t.rows))
                  /\ qlog' = <<"exists", "count", "size">>
                  /\ probe' = [exists |-> TRUE, exists_raised |-> FALSE,
                               count_raised |-> count_raises]
                  /\ pc' = "svc_cols"
                  /\ UNCHANGED results
    /\ idx' = idx + 1
    /\ ncol' = 0
    /\ nfail' = 0
    /\ latest_update' = None
    /\ UNCHANGED <<stage_records, stage_health, seen, tbl_ts, truth_rows, truth_latest>>
    /\ UNCHANGED <<env, ts_vars, cur_size, stage_status, pipeline_status, summary,
                   flows_done, flow_shown, page_error>>

\* One candidate of _get_latest_timestamp (lines 351-358); latest_update is
\* the value the call returns once the loop is left.
SvcProbeColumn ==
    /\ pc = "svc_cols"
    /\ \E ans \in AnswersOf(tbl.rows) :
          LET step == svc_candidate(ans) IN
          /\ latest_update' = step.ret
          /\ nfail' = IF ans.k = "raise" THEN nfail + 1 ELSE nfail
          /\ pc' = IF step.go = "return" \/ ncol + 1 = NCols THEN "svc_append"
                   ELSE "svc_cols"
    /\ ncol' = ncol + 1
    /\ qlog' = Append(qlog, timestamp_cols[ncol + 1])
    /\ UNCHANGED <<idx, stage_records, stage_health, record_count, tbl, probe, seen,
                   tbl_ts, truth_rows, truth_latest>>
    /\ UNCHANGED <<env, ts_vars, cur_size, stage_status, pipeline_status, summary,
                   flows_done, flow_shown, page_error, results>>

\* results.append({... 'status': 'Active' ...}) (lines 316-323)
SvcAppend ==
    /\ pc = "svc_append"
    /\ results' = Append(results, svc_active_record(record_count, latest_update, now))
    /\ pc' = IF idx = cur_size THEN "svc_done" ELSE "svc_tables"
    /\ UNCHANGED <<env, ts_vars, stage_locals, cur_size, stage_status, pipeline_status,
                   summary, flows_done, flow_shown, page_error>>

Next ==
    \/ EnterStage
    \/ ProbeTable
    \/ ProbeColumn
    \/ DecideHealth
    \/ ReturnStage
    \/ StageRaises
    \/ RenderSummary
    \/ RenderFlowCheck
    \/ SvcEnter
    \/ SvcProbeTable
    \/ SvcProbeColumn
    \/ SvcAppend

Spec == Init /\ [][Next]_vars

\* ---- the summary and the flow checks on any list of stage results ------------
HealthLabels == {"Active", "Inactive", "Missing", "Error", "Unknown"}
StatusLists ==
    UNION {[1..n -> [health : HealthLabels, total_records : 0..MaxRows]] : n \in 0..MaxList}

InitSummary ==
    /\ connected \in BOOLEAN
    /\ now = MaxStamp
    /\ page = "pipeline"
    /\ pipeline_status \in StatusLists
    /\ nstages = Len(pipeline_status)
    /\ pc = "summary"
    /\ LocalsInit
    /\ cur_size = 0
    /\ stage_status = NoStatus
    /\ summary = NoSummary
    /\ flows_done = 0
    /\ flow_shown = NoFlow
    /\ page_error = FALSE
    /\ results = <<>>
    /\ TsIdle

NextSummary ==
    \/ RenderSummary
    \/ RenderFlowCheck

SpecSummary == InitSummary /\ [][NextSummary]_vars

\* ---- the candidate loops on a whole table --------------------------------------
\* t_cols: what each candidate column answers; t_prev: latest_update of
\* check_pipeline_stage when the loop is entered
InitTs ==
    /\ connected = TRUE
    /\ now = MaxStamp
    /\ page = "pipeline"
    /\ nstages = 1
    /\ pc = "off"
    /\ LocalsInit
    /\ PageIdle
    /\ t_pc = "ready"
    /\ t_cols \in ColProfiles
    /\ t_prev \in Latest
    /\ t_stage = NoStageOut
    /\ t_svc = NoSvcOut
    /\ FnIdle

\* lines 165-177 of check_pipeline_stage, for one table
TsStage ==
    /\ t_pc = "ready"
    /\ t_stage' = stage_timestamp_loop(t_cols, 1, t_prev, <<>>)
    /\ t_pc' = "stage"
    /\ UNCHANGED <<env, stage_locals, page_vars, fn_vars, t_cols, t_prev, t_svc>>

\* DatabaseService._get_latest_timestamp(table_name)
TsService ==
    /\ t_pc = "stage"
    /\ t_svc' = get_latest_timestamp(t_cols, 1, <<>>)
    /\ t_pc' = "done"
    /\ UNCHANGED <<env, stage_locals, page_vars, fn_vars, t_cols, t_prev, t_stage>>

NextTs ==
    \/ TsStage
    \/ TsService

SpecTs == InitTs /\ [][NextTs]_vars

\* ---- one call of a function on its own ---------------------------------------
\* everything but fn_pc, fn_in, fn_out is as before any page is rendered
InitFrame ==
    /\ connected = TRUE
    /\ now = MaxStamp
    /\ page = "pipeline"
    /\ nstages = 1
    /\ pc = "off"
    /\ LocalsInit
    /\ PageIdle
    /\ t_pc = "off"
    /\ t_cols = [c \in 1..NCols |-> None]
    /\ t_prev = None
    /\ t_stage = NoStageOut
    /\ t_svc = NoSvcOut

InitCall ==
    /\ InitFrame
    /\ fn_pc = "ready"
    /\ fn_out = None

CallFrame == <<env, stage_locals, page_vars, t_pc, t_cols, t_prev, t_stage, t_svc>>

\* ages in tenths of an hour, the unit get_age_hours rounds to; None: unset
Ages == {[k |-> "float", v |-> a] : a \in 0..MaxAge}

InitFresh ==
    /\ InitCall
    /\ fn_in \in Ages \cup {None}

\* get_freshness_status(age_hours)
GetFreshnessStatus ==
    /\ fn_pc = "ready"
    /\ fn_out' = get_freshness_status(fn_in)
    /\ fn_pc' = "done"
    /\ UNCHANGED <<CallFrame, fn_in>>

NextFresh == GetFreshnessStatus

SpecFresh == InitFresh /\ [][NextFresh]_vars

\* ---- the coarse status of a table from the age of its latest timestamp ----------
\* etl_runs_page (streamlit_app.py lines 443-457): status from hours_old, the
\* unrounded age; times are in hundredths of an hour
etl_status(latest, clock) ==
    IF Truthy(latest)
    THEN (IF clock - latest.v < 2400 THEN "Active"
          ELSE IF clock - latest.v < 7200 THEN "Warning"
          ELSE "Critical")
    ELSE "Warning"

\* a table as both callers see it: its row count and its latest timestamp
\* (a table without rows has none), and the clock of the call
CoarseInputs ==
    {[count |-> c, last_update |-> lu, now |-> MaxClock] :
        c \in 1..MaxRows, lu \in {None} \cup {Dt(t) : t \in 0..MaxClock}}
    \cup {[count |-> 0, last_update |-> None, now |-> MaxClock]}

NoCoarseOut == [etl |-> "none", svc |-> "none"]

InitCoarse ==
    /\ InitCall
    /\ fn_in \in CoarseInputs

\* the freshness branch of etl_runs_page for one table
EtlStatus ==
    /\ fn_pc = "ready"
    /\ fn_out' = [NoCoarseOut EXCEPT !.etl = etl_status(fn_in.last_update, fn_in.now)]
    /\ fn_pc' = "etl"
    /\ UNCHANGED <<CallFrame, fn_in>>

\* DatabaseService._calculate_table_health(table_name, count, last_update)
CalculateTableHealth ==
    /\ fn_pc = "etl"
    /\ fn_out' = [fn_out EXCEPT !.svc = calculate_table_health(fn_in.count,
                                                               fn_in.last_update, fn_in.now)]
    /\ fn_pc' = "done"
    /\ UNCHANGED <<CallFrame, fn_in>>

NextCoarse ==
    \/ EtlStatus
    \/ CalculateTableHealth

SpecCoarse == InitCoarse /\ [][NextCoarse]_vars

\* ---- the flow rate of any pair of counts -----------------------------------------
\* etl_runs_page (streamlit_app.py lines 551-561): the entry appended to
\* flow_results; the rate is "0%" when the first count is falsy or not above 0
etl_flow_result(row) ==
    [source_count |-> row[1],
     target_count |-> row[2],
     flow_rate |-> IF row[1] # 0 /\ row[1] > 0 THEN [n |-> row[2] * 100, d |-> row[1]]
                   ELSE [n |-> 0, d |-> 1]]

Counts == 0..MaxCount
NoFlowOut == [pm |-> NoFlow, etl |-> NoFlow]

\* the one row of a flow query: any two counts
InitFlow ==
    /\ InitCall
    /\ fn_in \in [source_count : Counts, target_count : Counts]

\* render_data_flow_check on that row
FlowCheck ==
    /\ fn_pc = "ready"
    /\ fn_out' = [NoFlowOut EXCEPT !.pm = render_data_flow_check(
                     [k |-> "row", v |-> <<fn_in.source_count, fn_in.target_count>>])]
    /\ fn_pc' = "pm"
    /\ UNCHANGED <<CallFrame, fn_in>>

\* the body of the flow loop of etl_runs_page on that row
EtlFlow ==
    /\ fn_pc = "pm"
    /\ fn_out' = [fn_out EXCEPT !.etl = etl_flow_result(
                     <<fn_in.source_count, fn_in.target_count>>)]
    /\ fn_pc' = "done"
    /\ UNCHANGED <<CallFrame, fn_in>>

NextFlow ==
    \/ FlowCheck
    \/ EtlFlow

SpecFlow == InitFlow /\ [][NextFlow]_vars

\* ---- render_data_flow_check on the row its query yields ---------------------------
NoFlowQueryOut == [row |-> <<>>, shown |-> NoFlow]

\* a flow check of the page and the keys the tables of its query hold
InitFlowQuery ==
    /\ InitCall
    /\ \E i \in 1..Len(flow_checks) : \E keyset \in KeySets(flow_checks[i]) :
          fn_in = [check |-> i, keyset |-> keyset]

\* the row of flow_check['query'] on those tables
FlowQuery ==
    /\ fn_pc = "ready"
    /\ fn_out' = [NoFlowQueryOut EXCEPT
                     !.row = flow_query_row(flow_checks[fn_in.check], fn_in.keyset)]
    /\ fn_pc' = "row"
    /\ UNCHANGED <<CallFrame, fn_in>>

\* source_count = list(result.values())[0], target_count = list(result.values())[1]
\* and the rest of render_data_flow_check (lines 253-274)
FlowRender ==
    /\ fn_pc = "row"
    /\ fn_out' = [fn_out EXCEPT !.shown = render_data_flow_check([k |-> "row", v |-> fn_out.row])]
    /\ fn_pc' = "done"
    /\ UNCHANGED <<CallFrame, fn_in>>

NextFlowQuery ==
    \/ FlowQuery
    \/ FlowRender

SpecFlowQuery == InitFlowQuery /\ [][NextFlowQuery]_vars

\* ---- DatabaseService.execute_query / execute_scalar on one connection -------------
\* PostgreSQL aborts a statement that runs longer than the statement_timeout
\* in force when it starts; 0 is no limit.  duration is in seconds.
aborted(duration, in_force_ms) == in_force_ms > 0 /\ duration * 1000 > in_force_ms

\* A call: which method, its timeout argument, the configured query_timeout,
\* the statement_timeout the connection taken from the pool has (none, or the
\* one an earlier call left on it) and how long the query needs.
QueryTimeouts == 1..MaxTimeout \cup {DefaultQueryTimeout}

QueryCalls ==
    {c \in [fn : {"execute_query", "execute_scalar"},
            timeout : {None} \cup {IntVal(t) : t \in 1..MaxTimeout},
            query_timeout : QueryTimeouts,
            session_ms : {0} \cup {t * 1000 : t \in 1..MaxTimeout},
            duration : 0..(MaxTimeout + 1)] :
        c.fn = "execute_scalar" => c.timeout = None}

\* log: the statements sent on the connection, in order; in_force_ms: the
\* statement_timeout under which the query ran; set_value: the value of the
\* SET statement; session_ms: the connection's statement_timeout now;
\* result: "rows", "raise" (SQLAlchemyError) or "none"
NoQueryOut == [log |-> <<>>, in_force_ms |-> 0, set_value |-> None, session_ms |-> 0,
               result |-> "pending"]

InitQuery ==
    /\ InitCall
    /\ fn_in \in QueryCalls

\* execute_query: conn.execute(text(query)) (line 90); an aborted query
\* raises and the except re-raises SQLAlchemyError (lines 104-106)
ExecuteQueryRun ==
    /\ fn_pc = "ready"
    /\ fn_in.fn = "execute_query"
    /\ LET out == [NoQueryOut EXCEPT !.log = <<"query">>,
                                    !.in_force_ms = fn_in.session_ms,
                                    !.session_ms = fn_in.session_ms]
       IN IF aborted(fn_in.duration, fn_in.session_ms)
          THEN /\ fn_out' = [out EXCEPT !.result = "raise"]
               /\ fn_pc' = "done"
          ELSE /\ fn_out' = out
               /\ fn_pc' = "set_timeout"
    /\ UNCHANGED <<CallFrame, fn_in>>

\* execute_query: conn.execute(text("SET statement_timeout = ...")) (lines
\* 93-94); a rejected SET raises and the except re-raises SQLAlchemyError
ExecuteQuerySetTimeout ==
    /\ fn_pc = "set_timeout"
    /\ LET value == times_1000(resolve_timeout(fn_in.timeout, fn_in.query_timeout))
           out == [fn_out EXCEPT !.log = Append(@, "set_timeout"), !.set_value = value]
       IN IF set_accepted(value)
          THEN /\ fn_out' = [out EXCEPT !.session_ms = value.v]
               /\ fn_pc' = "fetch"
          ELSE /\ fn_out' = [out EXCEPT !.result = "raise"]
               /\ fn_pc' = "done"
    /\ UNCHANGED <<CallFrame, fn_in>>

\* execute_query: rows = result.fetchall() and the return (lines 96-102)
ExecuteQueryFetch ==
    /\ fn_pc = "fetch"
    /\ fn_out' = [fn_out EXCEPT !.result = "rows"]
    /\ fn_pc' = "done"
    /\ UNCHANGED <<CallFrame, fn_in>>

\* execute_scalar: conn.execute(...) and result.scalar(); an aborted query
\* is printed and None is returned (lines 115-121); no timeout is set
ExecuteScalar ==
    /\ fn_pc = "ready"
    /\ fn_in.fn = "execute_scalar"
    /\ fn_out' = [NoQueryOut EXCEPT !.log = <<"query">>,
                                   !.in_force_ms = fn_in.session_ms,
                                   !.session_ms = fn_in.session_ms,
                                   !.result = IF aborted(fn_in.duration, fn_in.session_ms)
                                              THEN "none" ELSE "rows"]
    /\ fn_pc' = "done"
    /\ UNCHANGED <<CallFrame, fn_in>>

NextQuery ==
    \/ ExecuteQueryRun
    \/ ExecuteQuerySetTimeout
    \/ ExecuteQueryFetch
    \/ ExecuteScalar

SpecQuery == InitQuery /\ [][NextQuery]_vars

\* ---- main() of the application, one script run after another --------------------
\* the keys of pages (lines 1381-1388)
Pages == {"Overview", "Pipeline Monitor", "QA Checks", "Performance",
          "FE Tables Monitor", "Logs & Artifacts"}

\* fn_in: the widget and session state a script run reads.  trigger is the
\* button whose click started the run: a button is True in that run only.
\* fn_out: buttons, whether the sidebar buttons are on the screen; refresh,
\* "clicked" from a click on Refresh Data until st.cache_data.clear() has run
\* and "cleared" from then until a page has been rendered, "none" again when
\* the login form is all the session gets; evaluated, whether the current run
\* has rendered its page.
Triggers == {"none", "login", "refresh", "logout"}
NoRunOut == [buttons |-> FALSE, refresh |-> "none", evaluated |-> FALSE]

\* the first run of a session: nothing clicked, not authenticated; the
\* checkbox starts at config.ui_config['auto_refresh'] and authentication is
\* on or off by config.auth_config['enabled']
InitRefresh ==
    /\ InitFrame
    /\ fn_pc = "main"
    /\ fn_in \in [selected_page : {"Overview"}, auto_refresh : BOOLEAN,
                  auth_enabled : BOOLEAN, authenticated : {FALSE}, trigger : {"none"}]
    /\ fn_out = NoRunOut

\* a widget can be used while the script is not running or sleeps; its use
\* starts a new run from the top of main()
Interactive == fn_pc \in {"idle", "sleep"}
LoggedIn == fn_in.auth_enabled => fn_in.authenticated
StartRun(widgets) ==
    /\ fn_in' = widgets
    /\ fn_pc' = "main"
    /\ UNCHANGED CallFrame

\* st.sidebar.radio("Navigation", ...)
UserSelectsPage ==
    /\ Interactive
    /\ LoggedIn
    /\ \E p \in Pages \ {fn_in.selected_page} :
          StartRun([fn_in EXCEPT !.selected_page = p, !.trigger = "none"])
    /\ fn_out' = [fn_out EXCEPT !.evaluated = FALSE]

\* st.sidebar.checkbox("Auto-refresh (...)")
UserTogglesAutoRefresh ==
    /\ Interactive
    /\ LoggedIn
    /\ StartRun([fn_in EXCEPT !.auto_refresh = ~@, !.trigger = "none"])
    /\ fn_out' = [fn_out EXCEPT !.evaluated = FALSE]

\* a click on st.sidebar.button("Refresh Data")
UserClicksRefresh ==
    /\ Interactive
    /\ fn_out.buttons
    /\ StartRun([fn_in EXCEPT !.trigger = "refresh"])
    /\ fn_out' = [fn_out EXCEPT !.refresh = "clicked", !.evaluated = FALSE]

\* a click on st.sidebar.button("Logout")
UserClicksLogout ==
    /\ Interactive
    /\ fn_out.buttons
    /\ StartRun([fn_in EXCEPT !.trigger = "logout"])
    /\ fn_out' = [fn_out EXCEPT !.evaluated = FALSE]

\* a click on st.button("Login") of the login form
UserClicksLogin ==
    /\ fn_pc = "idle"
    /\ ~LoggedIn
    /\ StartRun([fn_in EXCEPT !.trigger = "login"])
    /\ fn_out' = [fn_out EXCEPT !.evaluated = FALSE]

\* check_authentication_status: the session is older than auth_timeout
AuthExpires ==
    /\ Interactive
    /\ fn_in.auth_enabled
    /\ fn_in.authenticated
    /\ fn_in' = [fn_in EXCEPT !.authenticated = FALSE]
    /\ UNCHANGED <<CallFrame, fn_pc, fn_out>>

\* st.rerun(): this run ends and the next starts; no button is True in it
rerun(widgets) == StartRun([widgets EXCEPT !.trigger = "none"])

\* check_authentication() (lines 133-145): the login form and st.stop()
\* for a session that is not authenticated
MainCheckAuthentication ==
    /\ fn_pc = "main"
    /\ IF LoggedIn
       THEN /\ fn_pc' = "auto"
            /\ UNCHANGED <<CallFrame, fn_in, fn_out>>
       ELSE \E valid \in BOOLEAN :
               IF fn_in.trigger = "login" /\ valid
               THEN /\ rerun([fn_in EXCEPT !.authenticated = TRUE])
                    /\ UNCHANGED fn_out
               ELSE /\ fn_pc' = "idle"
                    /\ fn_out' = [fn_out EXCEPT !.buttons = FALSE, !.refresh = "none"]
                    /\ UNCHANGED <<CallFrame, fn_in>>

\* if auto_refresh: (line 1399)
MainAutoRefresh ==
    /\ fn_pc = "auto"
    /\ fn_pc' = IF fn_in.auto_refresh THEN "sleep" ELSE "refresh"
    /\ UNCHANGED <<CallFrame, fn_in, fn_out>>

\* time.sleep(auto_refresh_interval) is over; st.rerun() (lines 1400-1401).
\* The buttons of an earlier run may or may not still be on the screen.
MainSleepRerun ==
    /\ fn_pc = "sleep"
    /\ rerun(fn_in)
    /\ \E kept \in {fn_out.buttons, FALSE} : fn_out' = [fn_out EXCEPT !.buttons = kept]

\* if st.sidebar.button("Refresh Data"): st.cache_data.clear();
\* st.cache_resource.clear(); st.rerun() (lines 1404-1407)
MainRefreshButton ==
    /\ fn_pc = "refresh"
    /\ IF fn_in.trigger = "refresh"
       THEN /\ rerun(fn_in)
            /\ fn_out' = [fn_out EXCEPT !.buttons = TRUE, !.refresh = "cleared"]
       ELSE /\ fn_pc' = "logout"
            /\ fn_out' = [fn_out EXCEPT !.buttons = TRUE]
            /\ UNCHANGED <<CallFrame, fn_in>>

\* if st.sidebar.button("Logout"): logout_user(); st.rerun() (lines 1410-1412)
MainLogoutButton ==
    /\ fn_pc = "logout"
    /\ IF fn_in.trigger = "logout"
       THEN /\ rerun([fn_in EXCEPT !.authenticated = FALSE])
            /\ UNCHANGED fn_out
       ELSE /\ fn_pc' = "page"
            /\ UNCHANGED <<CallFrame, fn_in, fn_out>>

\* pages[selected_page]() (line 1420): the evaluation pass of the page
MainRunPage ==
    /\ fn_pc = "page"
    /\ fn_out' = [fn_out EXCEPT !.evaluated = TRUE, !.refresh = "none"]
    /\ fn_pc' = "idle"
    /\ UNCHANGED <<CallFrame, fn_in>>

NextRefresh ==
    \/ UserSelectsPage
    \/ UserTogglesAutoRefresh
    \/ UserClicksRefresh
    \/ UserClicksLogout
    \/ UserClicksLogin
    \/ AuthExpires
    \/ MainCheckAuthentication
    \/ MainAutoRefresh
    \/ MainSleepRerun
    \/ MainRefreshButton
    \/ MainLogoutButton
    \/ MainRunPage

SpecRefresh == InitRefresh /\ [][NextRefresh]_vars

\* ---- alerts on critical issues ----------------------------------------------------
\* config 'alert_threshold_failures': int(os.getenv('ALERT_THRESHOLD_FAILURES', '5'))
DefaultAlertThreshold == 5
AlertThresholds == 1..MaxThreshold \cup {DefaultAlertThreshold}

\* helpers.send_slack_alert: nothing is posted without a webhook URL or with
\* alerts disabled; otherwise one POST, answered with 200 or not, or raising
send_slack_alert(webhook_set, enabled, post_ok) ==
    IF ~webhook_set \/ ~enabled
    THEN [posted |-> FALSE, returned |-> FALSE]
    ELSE [posted |-> TRUE, returned |-> post_ok]

\* critical_issues = [r for r in results if r['status'] in ['FAILED', 'ERROR']]
\* on a list with failed 'FAILED', error 'ERROR' and other further entries
critical_issues(validation_results) == validation_results.failed + validation_results.error

\* A pass: the validation results handed to alert_critical_issues, or the
\* failures of the last 24 hours render_system_health_section counts, with
\* the alert configuration
AlertCalls ==
    {c \in [fn : {"alert_critical_issues", "render_system_health_section"},
            results : [failed : 0..MaxIssues, error : 0..MaxIssues, other : 0..1],
            recent_failures : 0..(2 * MaxIssues),
            alert_threshold_failures : AlertThresholds,
            webhook_set : BOOLEAN,
            enabled : BOOLEAN] :
        IF c.fn = "alert_critical_issues" THEN c.recent_failures = 0
        ELSE c.results = [failed |-> 0, error |-> 0, other |-> 0]}

\* requested: send_slack_alert was called; posted: a POST went to the webhook
NoAlertOut == [requested |-> FALSE, posted |-> FALSE]

InitAlert ==
    /\ InitCall
    /\ fn_in \in AlertCalls

\* qa_checks.alert_critical_issues (lines 642-651): if critical_issues:
AlertCriticalIssues ==
    /\ fn_pc = "ready"
    /\ fn_in.fn = "alert_critical_issues"
    /\ \E post_ok \in BOOLEAN :
          fn_out' = IF critical_issues(fn_in.results) # 0
                    THEN [requested |-> TRUE,
                          posted |-> send_slack_alert(fn_in.webhook_set, fn_in.enabled,
                                                      post_ok).posted]
                    ELSE NoAlertOut
    /\ fn_pc' = "done"
    /\ UNCHANGED <<CallFrame, fn_in>>

\* overview.render_system_health_section (lines 234-253):
\* if len(recent_failures) > 0: ... if len(recent_failures) >= 3:
RenderSystemHealth ==
    /\ fn_pc = "ready"
    /\ fn_in.fn = "render_system_health_section"
    /\ \E post_ok \in BOOLEAN :
          fn_out' = IF fn_in.recent_failures > 0 /\ fn_in.recent_failures >= 3
                    THEN [requested |-> TRUE,
                          posted |-> send_slack_alert(fn_in.webhook_set, fn_in.enabled,
                                                      post_ok).posted]
                    ELSE NoAlertOut
    /\ fn_pc' = "done"
    /\ UNCHANGED <<CallFrame, fn_in>>

NextAlert ==
    \/ AlertCriticalIssues
    \/ RenderSystemHealth

SpecAlert == InitAlert /\ [][NextAlert]_vars

\* ---- check_pipeline_stage as a function of its probe answers ----------------------
\* The answers one member table gives: to the existence check ("yes", "no",
\* "raise"), to the count, and to the MAX query of each candidate column.
\* A table counted as empty has no maximum; columns 3 to 5 are not there.
cols_of(lead, ans) ==
    [c \in 1..NCols |-> IF c = 1 THEN lead ELSE IF c = 2 THEN ans ELSE Raise]
TableAnswers ==
    {[exists |-> e, count |-> Raise, cols |-> cols_of(Raise, Raise)] : e \in {"no", "raise"}}
    \cup
    UNION {{[exists |-> "yes", count |-> cnt, cols |-> cols_of(lead, ans)] :
               lead \in {Raise, None},
               ans \in (IF cnt = IntVal(0) THEN {Raise, None} ELSE ColAns)} :
            cnt \in {Raise} \cup {IntVal(n) : n \in 0..MaxRows}}

\* stage_records, latest_update and stage_health at the entry of the call
\* (lines 148-152), whatever an earlier call left behind
NoLocals == [records |-> 0, latest |-> None, health |-> "Unknown"]
stage_entry_mut(left) == left
stage_entry(left) == NoLocals

\* one iteration of `for table_name, description in tables.items()`
stage_table(t, l) ==
    IF ~get_table_exists(t.exists = "yes", t.exists = "raise")
    THEN [locals |-> [l EXCEPT !.health = health_on_missing(l.health)], stop |-> FALSE]
    ELSE LET count == get_table_count(t.count)
             loop == stage_timestamp_loop(t.cols, 1, l.latest, <<>>)
         IN [locals |-> [records |-> add_records(l.records, count),
                         latest |-> loop.latest,
                         health |-> health_of_count(count)],
             stop |-> breaks(count)]

RECURSIVE stage_tables(_, _, _)
stage_tables(tables, i, l) ==
    IF i > Len(tables) THEN l
    ELSE LET step == stage_table(tables[i], l) IN
         IF step.stop THEN step.locals ELSE stage_tables(tables, i + 1, step.locals)

\* check_pipeline_stage and the summary of the one-stage list: the locals
\* the call ends with, the dict returned (or the AttributeError of
\* isoformat) and the health score
evaluate_stage(tables, clock, left) ==
    LET l == stage_tables(tables, 1, stage_entry(left)) IN
    IF Truthy(l.latest) /\ ~has_isoformat(l.latest)
    THEN [locals |-> l, raised |-> TRUE, status |-> NoStatus,
          health_score |-> [n |-> 0, d |-> 1]]
    ELSE LET status == stage_result(l.records, l.latest, l.health, Len(tables), clock)
             listed == <<summary_fields(status)>>
         IN [locals |-> l, raised |-> FALSE, status |-> status,
             health_score |-> health_score_of(active_stages_of(listed), Len(listed))]

TableLists == UNION {[1..n -> TableAnswers] : n \in 1..MaxList}
NoRuns == [left |-> NoLocals, runs |-> <<>>]

\* the probe answers of the member tables of a stage, and the clock
InitTwice ==
    /\ InitFrame
    /\ fn_pc = "ready"
    /\ fn_in \in [tables : TableLists, clock : {MaxClock}]
    /\ fn_out = NoRuns

\* one evaluation of the stage on those answers
EvaluateStage ==
    /\ fn_pc \in {"ready", "once"}
    /\ LET run == evaluate_stage(fn_in.tables, fn_in.clock, fn_out.left)
       IN fn_out' = [left |-> run.locals,
                     runs |-> Append(fn_out.runs, [raised |-> run.raised,
                                                   status |-> run.status,
                                                   health_score |-> run.health_score])]
    /\ fn_pc' = IF fn_pc = "ready" THEN "once" ELSE "twice"
    /\ UNCHANGED <<CallFrame, fn_in>>

NextTwice == EvaluateStage

SpecTwice == InitTwice /\ [][NextTwice]_vars

\* ---- the login session (utils.helpers) ----------------------------------------------
\* Time goes in ticks of an hour; seconds_of gives a span in seconds.
seconds_of(ticks) == ticks * 3600

\* config 'auth_timeout': int(os.getenv('AUTH_TIMEOUT', '3600')), in seconds
DefaultAuthTimeout == 3600
AuthTimeouts == {DefaultAuthTimeout} \cup {seconds_of(n) : n \in 1..MaxTimeout}

\* config 'dashboard_password' and what a visitor may type
DashboardPassword == "admin123"
Passwords == {DashboardPassword, "letmein"}

\* timedelta.seconds: the seconds of the span that are left once its whole
\* days are taken out
SecondsPerDay == 24 * 3600
timedelta_seconds(span) == span % SecondsPerDay

\* validate_password: equal SHA-256 digests, that is equal passwords
validate_password(password, stored_password) == password = stored_password

\* st.session_state: authenticated is "unset" until the first
\* check_authentication_status, auth_timestamp is None or IntVal(tick)
NoSession == [authenticated |-> "unset", auth_timestamp |-> None]

\* check_authentication_status (lines 161-173): the session it leaves and
\* the value it returns
check_authentication_status(session, clock, auth_timeout) ==
    LET s1 == IF session.authenticated = "unset"
              THEN [session EXCEPT !.authenticated = "False"] ELSE session
        expired == /\ s1.auth_timestamp # None
                   /\ timedelta_seconds(seconds_of(clock - s1.auth_timestamp.v))
                        > auth_timeout
        s2 == IF expired THEN [s1 EXCEPT !.authenticated = "False"] ELSE s1
    IN [session |-> s2, ret |-> s2.authenticated = "True"]

\* login_user (lines 176-183)
login_user(session, password, clock) ==
    IF validate_password(password, DashboardPassword)
    THEN [session |-> [authenticated |-> "True", auth_timestamp |-> IntVal(clock)],
          ret |-> TRUE]
    ELSE [session |-> session, ret |-> FALSE]

\* logout_user (lines 186-190)
logout_user(session) == [authenticated |-> "False", auth_timestamp |-> None]

\* fn_in: the clock and the configured auth_timeout.  fn_out: the session,
\* the last call with what it returned, the session it found and its tick, the tick of
\* the last successful login (-1: none) and whether logout_user ran since.
NoCall == [fn |-> "none", ret |-> FALSE, found |-> NoSession, at |-> 0]
InitAuth ==
    /\ InitFrame
    /\ fn_pc = "session"
    /\ fn_in \in [clock : {0}, auth_timeout : AuthTimeouts]
    /\ fn_out = [session |-> NoSession, last |-> NoCall, login_at |-> -1,
                 logged_out |-> FALSE]

\* time passes
AuthTick ==
    /\ fn_pc = "session"
    /\ \E later \in (fn_in.clock + 1)..MaxTicks : fn_in' = [fn_in EXCEPT !.clock = later]
    /\ UNCHANGED <<CallFrame, fn_pc, fn_out>>

CheckAuthenticationStatus ==
    /\ fn_pc = "session"
    /\ LET r == check_authentication_status(fn_out.session, fn_in.clock, fn_in.auth_timeout)
       IN fn_out' = [fn_out EXCEPT !.session = r.session,
                                   !.last = [fn |-> "check_authentication_status",
                                             ret |-> r.ret, found |-> fn_out.session,
                                             at |-> fn_in.clock]]
    /\ UNCHANGED <<CallFrame, fn_pc, fn_in>>

LoginUser ==
    /\ fn_pc = "session"
    /\ \E password \in Passwords :
          LET r == login_user(fn_out.session, password, fn_in.clock)
          IN fn_out' = [session |-> r.session,
                        last |-> [fn |-> "login_user", ret |-> r.ret,
                                  found |-> fn_out.session, at |-> fn_in.clock],
                        login_at |-> IF r.ret THEN fn_in.clock ELSE fn_out.login_at,
                        logged_out |-> IF r.ret THEN FALSE ELSE fn_out.logged_out]
    /\ UNCHANGED <<CallFrame, fn_pc, fn_in>>

LogoutUser ==
    /\ fn_pc = "session"
    /\ fn_out' = [fn_out EXCEPT !.session = logout_user(fn_out.session),
                                !.last = [fn |-> "logout_user", ret |-> FALSE,
                                          found |-> fn_out.session, at |-> fn_in.clock],
                                !.logged_out = TRUE]
    /\ UNCHANGED <<CallFrame, fn_pc, fn_in>>

NextAuth ==
    \/ AuthTick
    \/ CheckAuthenticationStatus
    \/ LoginUser
    \/ LogoutUser

SpecAuth == InitAuth /\ [][NextAuth]_vars

\* ---- utils.helpers.DashboardCache ------------------------------------------------------
\* set(key, value, ttl_seconds=300)
DefaultTtl == 300
Ttls == 0..MaxTtl \cup {DefaultTtl}
CacheKeys == {"status", "flows"}
CacheValues == {IntVal(n) : n \in 1..2}
\* the seconds at which a call can be made: the first ones, and those
\* around the end of a default ttl
CacheTimes == 0..MaxCacheClock \cup {DefaultTtl + n : n \in 0..MaxCacheClock}

\* a dict without one key
without(dict, key) == [x \in DOMAIN dict \ {key} |-> dict[x]]
\* a dict with dict[key] = value
with(dict, key, value) == [x \in DOMAIN dict \cup {key} |-> IF x = key THEN value ELSE dict[x]]
EmptyDict == [x \in {} |-> 0]

\* DashboardCache._is_expired (lines 332-336)
is_expired_mut(c, key, clock) ==
    IF key \notin DOMAIN c.timestamps THEN TRUE ELSE clock >= c.timestamps[key]
is_expired(c, key, clock) ==
    IF key \notin DOMAIN c.timestamps THEN TRUE ELSE clock > c.timestamps[key]

\* DashboardCache.delete (lines 325-330)
cache_delete_mut(c, key) ==
    [cache |-> without(c.cache, key), timestamps |-> c.timestamps]
cache_delete(c, key) ==
    [cache |-> without(c.cache, key), timestamps |-> without(c.timestamps, key)]

\* DashboardCache.get (lines 311-318): the cache it leaves, what it returns
cache_get(c, key, clock) ==
    IF key \in DOMAIN c.cache
    THEN IF is_expired(c, key, clock)
         THEN [c |-> cache_delete(c, key), ret |-> None]
         ELSE [c |-> c, ret |-> c.cache[key]]
    ELSE [c |-> c, ret |-> None]

\* DashboardCache.set (lines 320-323)
cache_set(c, key, value, ttl_seconds, clock) ==
    [cache |-> with(c.cache, key, value),
     timestamps |-> with(c.timestamps, key, clock + ttl_seconds)]

\* DashboardCache.clear (lines 338-341)
cache_clear(c) == [cache |-> EmptyDict, timestamps |-> EmptyDict]

\* fn_in: the clock.  fn_out: c, the two dicts; last, the last call; sets,
\* for each key the value, time and ttl of its most recent set, taken away
\* again by delete(key) and clear()
NoCacheCall == [fn |-> "none", key |-> "none", ret |-> None, at |-> 0, expired |-> FALSE]
NoSet == [value |-> None, at |-> 0, ttl |-> -1]

\* DashboardCache.__init__ (lines 307-309)
InitCache ==
    /\ InitFrame
    /\ fn_pc = "cache"
    /\ fn_in = [clock |-> 0]
    /\ fn_out = [c |-> [cache |-> EmptyDict, timestamps |-> EmptyDict],
                 last |-> NoCacheCall,
                 sets |-> [key \in CacheKeys |-> NoSet]]

CacheTick ==
    /\ fn_pc = "cache"
    /\ \E later \in {t \in CacheTimes : t > fn_in.clock} : fn_in' = [clock |-> later]
    /\ UNCHANGED <<CallFrame, fn_pc, fn_out>>

CacheGet ==
    /\ fn_pc = "cache"
    /\ \E key \in CacheKeys :
          LET r == cache_get(fn_out.c, key, fn_in.clock)
          IN fn_out' = [fn_out EXCEPT
                           !.c = r.c,
                           !.last = [fn |-> "get", key |-> key, ret |-> r.ret,
                                     at |-> fn_in.clock,
                                     expired |-> /\ key \in DOMAIN fn_out.c.cache
                                                 /\ is_expired(fn_out.c, key, fn_in.clock)]]
    /\ UNCHANGED <<CallFrame, fn_pc, fn_in>>

CacheSet ==
    /\ fn_pc = "cache"
    /\ \E key \in CacheKeys, value \in CacheValues, ttl_seconds \in Ttls :
          fn_out' = [c |-> cache_set(fn_out.c, key, value, ttl_seconds, fn_in.clock),
                     last |-> [fn |-> "set", key |-> key, ret |-> None,
                               at |-> fn_in.clock, expired |-> FALSE],
                     sets |-> [fn_out.sets EXCEPT
                                  ![key] = [value |-> value, at |-> fn_in.clock,
                                            ttl |-> ttl_seconds]]]
    /\ UNCHANGED <<CallFrame, fn_pc, fn_in>>

CacheDelete ==
    /\ fn_pc = "cache"
    /\ \E key \in CacheKeys :
          fn_out' = [c |-> cache_delete(fn_out.c, key),
                     last |-> [fn |-> "delete", key |-> key, ret |-> None,
                               at |-> fn_in.clock, expired |-> FALSE],
                     sets |-> [fn_out.sets EXCEPT ![key] = NoSet]]
    /\ UNCHANGED <<CallFrame, fn_pc, fn_in>>

CacheClear ==
    /\ fn_pc = "cache"
    /\ fn_out' = [c |-> cache_clear(fn_out.c),
                  last |-> [fn |-> "clear", key |-> "none", ret |-> None,
                            at |-> fn_in.clock, expired |-> FALSE],
                  sets |-> [key \in CacheKeys |-> NoSet]]
    /\ UNCHANGED <<CallFrame, fn_pc, fn_in>>

NextCache ==
    \/ CacheTick
    \/ CacheGet
    \/ CacheSet
    \/ CacheDelete
    \/ CacheClear

SpecCache == InitCache /\ [][NextCache]_vars

\* ---- crypto_db_utils.optimization.executor.main ------------------------------------
\* What the operator types at the prompt: the letters in lower case, whether
\* some were typed in upper case, whether blanks surround them
Answers == [text : {"yes", "y", "no", ""}, upper : BOOLEAN, padded : BOOLEAN]
Typed(word) == [text |-> word, upper |-> FALSE, padded |-> FALSE]

\* input(...).lower().strip()
lower_strip(answer) == [answer EXCEPT !.upper = FALSE, !.padded = FALSE]

\* if response != 'yes': ... return False
proceeds_mut(response) == response # Typed("no")
proceeds(response) == response = Typed("yes")

\* the four steps of the workflow, in the order main runs them
OptimizationSteps == <<"primary_keys", "indexes", "analyze", "verify">>

\* how a step can end.  sql: a statement reached the database; ok: what the
\* step reports (True, or a non-empty results dict)
\*   execute_sql_file: file not readable; no statement in the file;
\*     no connection; the statement failed; done
\*   run_analyze, verify_optimization: no connection; failed; done
StepOutcomes(step) ==
    (IF step \in {"primary_keys", "indexes"}
     THEN {[how |-> "unreadable", sql |-> FALSE, ok |-> FALSE],
           [how |-> "no statements", sql |-> FALSE, ok |-> TRUE]}
     ELSE {})
    \cup {[how |-> "no connection", sql |-> FALSE, ok |-> FALSE],
          [how |-> "statement failed", sql |-> TRUE, ok |-> FALSE],
          [how |-> "done", sql |-> TRUE, ok |-> TRUE]}

\* fn_in: what main finds.  fn_out: steps, the steps run with their
\* outcomes, in order; ret: "none" while running, "True", "False", or
\* "raised" when an exception leaves main
NoWorkflow == [steps |-> <<>>, ret |-> "none"]

InitExecutor ==
    /\ InitFrame
    /\ fn_pc = "find_scripts"
    /\ fn_in \in [dir_exists : BOOLEAN, pk_scripts : BOOLEAN, idx_scripts : BOOLEAN,
                  answer : Answers, env_set : BOOLEAN]
    /\ fn_out = NoWorkflow

returns(value) ==
    /\ fn_out' = [fn_out EXCEPT !.ret = value]
    /\ fn_pc' = "done"
    /\ UNCHANGED <<CallFrame, fn_in>>

goes_to(position) ==
    /\ fn_pc' = position
    /\ UNCHANGED <<CallFrame, fn_in, fn_out>>

\* script_dir.exists(), the two globs (lines 178-191)
FindScripts ==
    /\ fn_pc = "find_scripts"
    /\ IF ~fn_in.dir_exists THEN returns("False")
       ELSE IF ~fn_in.pk_scripts \/ ~fn_in.idx_scripts THEN returns("False")
       ELSE goes_to("confirm")

\* response = input(...).lower().strip() (lines 201-205)
ConfirmExecution ==
    /\ fn_pc = "confirm"
    /\ IF proceeds(lower_strip(fn_in.answer)) THEN goes_to("construct")
       ELSE returns("False")

\* executor = OptimizationExecutor() (line 207), outside the try: without
\* DB_HOST, DB_USER or DB_PASSWORD the EnvironmentError leaves main
ConstructExecutor ==
    /\ fn_pc = "construct"
    /\ IF fn_in.env_set THEN goes_to("primary_keys") ELSE returns("raised")

\* one step of the try block (lines 212-247): run it, return False when it
\* reports a failure, go on to the next step or return True after the last
step_runs(n) ==
    /\ \E outcome \in StepOutcomes(OptimizationSteps[n]) :
          /\ fn_out' = [steps |-> Append(fn_out.steps,
                                         [step |-> OptimizationSteps[n],
                                          outcome |-> outcome]),
                        ret |-> IF ~outcome.ok THEN "False"
                                ELSE IF n = Len(OptimizationSteps) THEN "True"
                                ELSE "none"]
          /\ fn_pc' = IF outcome.ok /\ n < Len(OptimizationSteps)
                      THEN OptimizationSteps[n + 1] ELSE "done"
    /\ UNCHANGED <<CallFrame, fn_in>>

\* Step 1: executor.execute_sql_file(str(pk_script), "Primary Keys")
StepPrimaryKeys ==
    /\ fn_pc = "primary_keys"
    /\ step_runs(1)

\* Step 2: executor.execute_sql_file(str(idx_script), "Strategic Indexes")
StepIndexes ==
    /\ fn_pc = "indexes"
    /\ step_runs(2)

\* Step 3: executor.run_analyze()
StepAnalyze ==
    /\ fn_pc = "analyze"
    /\ step_runs(3)

\* Step 4: results = executor.verify_optimization(); if results: return True
StepVerify ==
    /\ fn_pc = "verify"
    /\ step_runs(4)

NextExecutor ==
    \/ FindScripts
    \/ ConfirmExecution
    \/ ConstructExecutor
    \/ StepPrimaryKeys
    \/ StepIndexes
    \/ StepAnalyze
    \/ StepVerify

SpecExecutor == InitExecutor /\ [][NextExecutor]_vars

\* ---- the freshness label of a stage from its latest timestamp ----------------------
\* check_pipeline_stage lines 193-198; times are in hundredths of an hour
AgeInputs ==
    {[latest_update |-> lu, now |-> MaxClock] :
        lu \in {None} \cup {Dt(t) : t \in 0..MaxClock}}

NoAgeOut == [age_hours |-> None, stage_fresh |-> "none"]

InitAge ==
    /\ InitCall
    /\ fn_in \in AgeInputs

\* age_hours = get_age_hours(latest_update), skipped for a falsy latest_update
StageAgeHours ==
    /\ fn_pc = "ready"
    /\ fn_out' = [NoAgeOut EXCEPT !.age_hours =
                     IF Truthy(fn_in.latest_update)
                     THEN get_age_hours(fn_in.latest_update, fn_in.now)
                     ELSE None]
    /\ fn_pc' = "age"
    /\ UNCHANGED <<CallFrame, fn_in>>

\* stage_fresh = get_freshness_status(age_hours), 'Unknown' without a timestamp
StageFreshness ==
    /\ fn_pc = "age"
    /\ fn_out' = [fn_out EXCEPT !.stage_fresh =
                     IF Truthy(fn_in.latest_update)
                     THEN get_freshness_status(fn_out.age_hours)
                     ELSE "Unknown"]
    /\ fn_pc' = "done"
    /\ UNCHANGED <<CallFrame, fn_in>>

NextAge ==
    \/ StageAgeHours
    \/ StageFreshness

SpecAge == InitAge /\ [][NextAge]_vars

\* ---- properties ----------------------------------------------------------------
\* check_pipeline_stage has just returned: stage_status is its result and the
\* locals of the call are still those it ended with
Returned == pc \in {"stages", "summary"} /\ Len(pipeline_status) > 0

\* a probe "errored" when its existence check or its count query raised;
\* a stage none of whose probes errored
NoProbeErrored == "errored" \notin seen

\* C1: check_pipeline_stage returns health 'Active' if and only if the probe
\* of at least one member table found it existing with a row count above 0,
\* wherever that table stands and whatever the other members are (missing,
\* empty, failing).
C1_ActiveIffSomeMemberActive ==
    Returned => (stage_status.health = "Active" <=> "active" \in seen)

\* C1 witness: a stage returned Active whose first member is missing and whose
\* second member holds rows
C1_Witness ==
    /\ Returned
    /\ stage_status.health = "Active"
    /\ seen = {"missing", "active"}
    /\ idx = 2

\* C2: for every list of stage statuses the health score of
\* render_pipeline_status_summary is (stages with health 'Active') / (stages)
\* * 100, is 0 for the empty list, and stays what it is whatever the flow
\* checks rendered after it show.
C2_HealthScore ==
    summary.done =>
        LET active == Cardinality({i \in 1..Len(pipeline_status) :
                                      pipeline_status[i].health = "Active"})
            total == Len(pipeline_status)
        IN /\ total = 0 => summary.health_score = [n |-> 0, d |-> 1]
           /\ total > 0 => summary.health_score.n * total
                             = 100 * active * summary.health_score.d

\* C2 witness: one of two stages Active, a stage that is neither Active nor
\* Missing beside it, and all flow checks rendered, each as a failed analysis
C2_Witness ==
    /\ summary.done
    /\ Len(pipeline_status) = 2
    /\ summary.active_stages = 1
    /\ \E i \in 1..2 : pipeline_status[i].health = "Inactive"
    /\ flows_done = Len(flow_checks)
    /\ flow_shown.shown = "Flow analysis failed"

\* C3: when no member table of a stage is active, check_pipeline_stage
\* returns 'Missing' if at least one member is missing, 'Error' if every
\* member probe errored, and 'Warning' otherwise, in every order.
C3_InactiveStageHealth ==
    (Returned /\ "active" \notin seen) =>
        stage_status.health = IF "missing" \in seen THEN "Missing"
                              ELSE IF seen = {"errored"} THEN "Error"
                              ELSE "Warning"

\* C4: total_records returned by check_pipeline_stage is the sum of the row
\* counts of all existing member tables (stated for stages none of whose
\* probes errored).
C4_TotalRecordsIsSum ==
    (Returned /\ NoProbeErrored) => stage_status.total_records = truth_rows

\* C5: last_update returned by check_pipeline_stage is the newest of the latest
\* timestamps of all member tables, and unset exactly when no member has one
\* (stated for stages none of whose probes errored).
C5_LastUpdateIsMax ==
    (Returned /\ NoProbeErrored) =>
        stage_status.last_update = IF truth_latest = 0 THEN None ELSE Dt(truth_latest)

\* the record _get_tables_status has just appended
last_result == results[Len(results)]

\* the step that takes a table whose existence check returned false
MissingProbeStep == idx' = idx + 1 /\ ~probe'.exists

\* C6 as the specification states it: for a table whose existence check
\* returns false no count, size or timestamp query is sent, its row count is
\* 0, its timestamp unset, and it is reported with health Missing.
C6_Original ==
    [][MissingProbeStep =>
         /\ qlog' = <<"exists">>
         /\ IF page = "pipeline"
            THEN /\ stage_records' = stage_records
                 /\ latest_update' = latest_update
                 /\ stage_health' = "Missing"
            ELSE /\ Len(results') = Len(results) + 1
                 /\ last_result'.row_count = 0
                 /\ last_result'.last_update = None
                 /\ last_result'.health = "Missing"]_vars

\* C6: for a table whose existence check returns false no count, size or
\* timestamp query is sent; check_pipeline_stage adds nothing to the record
\* total, leaves the latest timestamp as it was and sets the stage health to
\* 'Missing'; _get_tables_status appends a record with row count 0, no
\* timestamp, status 'Missing' and health 'Critical'.
C6_MissingTableProbe ==
    [][MissingProbeStep =>
         /\ qlog' = <<"exists">>
         /\ IF page = "pipeline"
            THEN /\ stage_records' = stage_records
                 /\ latest_update' = latest_update
                 /\ stage_health' = "Missing"
            ELSE results' = Append(results, [status |-> "Missing", row_count |-> 0,
                                             last_update |-> None,
                                             health |-> "Critical"])]_vars

\* C6 witness: _get_tables_status has taken an existing table and then one
\* whose existence check returned false
C6_Witness ==
    /\ page = "signals"
    /\ idx = 2
    /\ ~probe.exists
    /\ Len(results) = 2
    /\ results[1].status = "Active"
    /\ qlog = <<"exists">>

\* C7: a failing existence check or count query is not swallowed: the result
\* is tagged Error, never Missing and never an existing empty table.
C7_FailureTaggedError ==
    /\ (page = "pipeline" /\ probe.exists_raised) => stage_health = "Error"
    /\ (page = "pipeline" /\ probe.count_raised /\ pc \in {"tables", "return"})
          => stage_health = "Error"
    /\ (page = "signals" /\ probe.exists_raised) => last_result.status = "Error"
    /\ (page = "signals" /\ probe.count_raised /\ pc \in {"svc_tables", "svc_done"})
          => last_result.status = "Error"

\* C8: a failure while probing a table or running a flow check stays in that
\* entity's result: check_pipeline_stage never raises to the page, and a pass
\* that has ended evaluated every stage, the summary and every flow check.
C8_FailuresConfined ==
    /\ pc # "failed"
    /\ ~page_error
    /\ pc = "done" => /\ Len(pipeline_status) = nstages
                      /\ summary.done
                      /\ flows_done = Len(flow_checks)

\* C9: with the database unreachable for the whole pass every stage is
\* returned with health Error, the top-level error is shown, and the health
\* score is 0.
C9_UnreachableDatabase ==
    (~connected /\ page = "pipeline") =>
        /\ Returned => stage_status.health = "Error"
        /\ summary.done => (page_error /\ summary.health_score.n = 0)

\* the first candidate whose MAX is a non-null value (0: none)
FirstNonNull(cols) ==
    LET S == {c \in 1..NCols : execute_scalar(cols[c]) # None}
    IN IF S = {} THEN 0 ELSE CHOOSE c \in S : \A d \in S : c <= d

\* C10: both timestamp probes query the candidates in the order updated_at,
\* created_at, timestamp, last_updated, date, take the value of the first
\* candidate with a non-null maximum, and query no candidate after it.
C10_FirstMatchWins ==
    t_pc = "done" =>
        LET f == FirstNonNull(t_cols)
            n == IF f = 0 THEN NCols ELSE f
        IN /\ t_stage.qlog = SubSeq(timestamp_cols, 1, n)
           /\ t_svc.qlog = SubSeq(timestamp_cols, 1, n)
           /\ t_stage.hit = f
           /\ t_svc.ret = IF f = 0 THEN None ELSE t_cols[f]

\* the step that sends one candidate query and sees it raise
CandidateFails == ncol' = ncol + 1 /\ nfail' = nfail + 1

\* C11: a candidate timestamp query that fails is swallowed and the next
\* candidate is tried (the probe goes on to the health / the record after the
\* last one); it changes neither the timestamp found so far nor the table's
\* existence, row count or health, and nothing is raised; when every
\* candidate fails the table's timestamp is unset.
C11_CandidateFailureSwallowed ==
    /\ [][CandidateFails =>
            /\ qlog' = Append(qlog, timestamp_cols[ncol'])
            /\ latest_update' = latest_update
            /\ <<probe, tbl, record_count, stage_records, stage_health>>'
                  = <<probe, tbl, record_count, stage_records, stage_health>>
            /\ <<results, pipeline_status, page_error>>'
                  = <<results, pipeline_status, page_error>>
            /\ pc' = IF page = "pipeline"
                     THEN (IF ncol' = NCols THEN "health" ELSE "cols")
                     ELSE (IF ncol' = NCols THEN "svc_append" ELSE "svc_cols")]_vars
    /\ []((pc = "svc_append" /\ nfail = NCols) => latest_update = None)
    /\ []((Returned /\ idx = 1 /\ nfail = NCols) => stage_status.last_update = None)

\* C11 witness: a stage whose only probed table holds rows and has none of the
\* candidate columns is returned Active with no timestamp
C11_Witness ==
    /\ Returned
    /\ idx = 1
    /\ nfail = NCols
    /\ stage_status.health = "Active"
    /\ stage_status.total_records > 0
    /\ stage_status.last_update = None

\* the categories of get_freshness_status from freshest to oldest
FreshnessRank(label) ==
    CASE label = "Very Fresh (< 1h)" -> 1
      [] label = "Fresh (< 6h)" -> 2
      [] label = "Recent (< 24h)" -> 3
      [] label = "Stale (2-3 days)" -> 4
      [] label = "Old (3-7 days)" -> 5
      [] label = "Very Old (> 7 days)" -> 6

\* C12: get_freshness_status gives Very Fresh for a < 1 h, Fresh for
\* 1 <= a < 6, Recent for 6 <= a < 24, Stale for 24 <= a < 72, Old for
\* 72 <= a < 168, Very Old for a >= 168 and Unknown for an unset age; a
\* larger age never gives a fresher category, and an age on a threshold is
\* in the older category.  Ages are in tenths of an hour.
C12_FreshnessThresholds ==
    fn_pc = "done" =>
        IF fn_in = None THEN fn_out = "Unknown"
        ELSE LET a == fn_in.v IN
             /\ fn_out = (IF a < 10 THEN "Very Fresh (< 1h)"
                          ELSE IF 10 <= a /\ a < 60 THEN "Fresh (< 6h)"
                          ELSE IF 60 <= a /\ a < 240 THEN "Recent (< 24h)"
                          ELSE IF 240 <= a /\ a < 720 THEN "Stale (2-3 days)"
                          ELSE IF 720 <= a /\ a < 1680 THEN "Old (3-7 days)"
                          ELSE "Very Old (> 7 days)")
             /\ \A b \in 0..a :
                   FreshnessRank(get_freshness_status([k |-> "float", v |-> b]))
                      <= FreshnessRank(fn_out)

\* C12 witness: an age of exactly 24 hours was classified Stale
C12_Witness ==
    /\ fn_pc = "done"
    /\ fn_in = [k |-> "float", v |-> 240]
    /\ fn_out = "Stale (2-3 days)"

\* C13: the coarse status derived from the age of a table's latest timestamp
\* is Active below 24 h, Warning from 24 h to below 72 h, Critical from 72 h,
\* and Warning (never Unknown) when no timestamp was found, in etl_runs_page
\* and in DatabaseService._calculate_table_health alike.
C13_CoarseStatus ==
    fn_pc = "done" =>
        LET expected ==
                IF fn_in.last_update = None THEN "Warning"
                ELSE LET age == fn_in.now - fn_in.last_update.v
                     IN IF age < 2400 THEN "Active"
                        ELSE IF age < 7200 THEN "Warning"
                        ELSE "Critical"
        IN /\ fn_out.etl = expected
           /\ fn_out.svc = expected
           /\ fn_out.svc # "Unknown"

\* C14: with a source count above 0 the flow rate is exactly
\* target / source * 100 and is not clamped: a matched count above the source
\* count gives a rate above 100, shown as it is (10 and 15 give 150).
C14_FlowRateNoClamp ==
    (fn_pc = "done" /\ fn_in.source_count > 0) =>
        /\ fn_out.pm.shown = "Flow Rate"
        /\ fn_out.pm.flow_rate.d > 0
        /\ fn_out.pm.flow_rate.n * fn_in.source_count
              = 100 * fn_in.target_count * fn_out.pm.flow_rate.d
        /\ fn_in.target_count > fn_in.source_count
              => fn_out.pm.flow_rate.n > 100 * fn_out.pm.flow_rate.d

\* C14 witness: 10 source keys and 15 matched give 150 percent
C14_Witness ==
    /\ fn_pc = "done"
    /\ fn_in = [source_count |-> 10, target_count |-> 15]
    /\ fn_out.pm.shown = "Flow Rate"
    /\ fn_out.pm.flow_rate.n = 150 * fn_out.pm.flow_rate.d

C16_Original ==
    (fn_pc = "done" /\ fn_in.source_count > 0) =>
        LET n == fn_out.pm.flow_rate.n
            d == fn_out.pm.flow_rate.d
        IN fn_out.pm.band = IF n >= 90 * d THEN "Good Flow"
                            ELSE IF n >= 50 * d THEN "Moderate Flow"
                            ELSE "Poor Flow"

\* C16: the band shown for a flow rate r is 'Good Flow' for r > 90,
\* 'Moderate Flow' for 50 < r <= 90 and 'Poor Flow' for r <= 50: r = 90 is
\* Moderate and r = 50 is Poor.
C16_FlowBands ==
    (fn_pc = "done" /\ fn_in.source_count > 0) =>
        LET n == fn_out.pm.flow_rate.n
            d == fn_out.pm.flow_rate.d
        IN fn_out.pm.band = IF n > 90 * d THEN "Good Flow"
                            ELSE IF n > 50 * d THEN "Moderate Flow"
                            ELSE "Poor Flow"

\* C16 witness: 9 of 10 source keys matched, a rate of exactly 90, is shown
\* as Moderate Flow
C16_Witness ==
    /\ fn_pc = "done"
    /\ fn_in = [source_count |-> 10, target_count |-> 9]
    /\ fn_out.pm.band = "Moderate Flow"

\* C17: in every configured flow check the count used as the source count is
\* the number of distinct keys of the declared source_table and the count
\* used as the target count is the number of those keys that the declared
\* target_table holds too.
C17_DeclaredTablesCounted ==
    (fn_pc = "done" /\ fn_out.shown.shown \in {"Flow Rate", "No source data to analyze"}) =>
        LET declared == declared_counts(flow_checks[fn_in.check], fn_in.keyset)
        IN /\ fn_out.shown.source_count = declared.source_count
           /\ fn_out.shown.target_count = declared.target_count

\* the statement timeout the call is meant to run under, in milliseconds
configured_ms(call) ==
    IF call.timeout = None THEN call.query_timeout * 1000 ELSE call.timeout.v * 1000

\* C18: every query DatabaseService sends runs under the configured statement
\* timeout: the timeout is set on the connection before the query is sent,
\* so a query that needs longer is aborted and comes back as an error result.
C18_QueryUnderTimeout ==
    fn_pc = "done" =>
        /\ fn_out.log[1] = "set_timeout"
        /\ fn_out.in_force_ms = configured_ms(fn_in)
        /\ aborted(fn_in.duration, configured_ms(fn_in))
              => fn_out.result \in {"raise", "none"}

\* C19: a click on the manual refresh control clears the cached data in the
\* run the click starts, whatever the auto-refresh setting, and once the
\* cache is cleared the script does not come to rest before a page has been
\* evaluated afresh.
C19_ManualRefreshClears ==
    /\ fn_out.refresh = "clicked" => fn_in.trigger = "refresh"
    /\ (fn_out.refresh = "cleared" /\ fn_pc = "idle") => fn_out.evaluated

\* the critical issues a pass found
found_critical(call) ==
    IF call.fn = "alert_critical_issues" THEN critical_issues(call.results)
    ELSE call.recent_failures

\* C20: an alert is requested when, and only when, the number of critical
\* issues found in the pass reaches the configured alert_threshold_failures.
C20_AlertAtThreshold ==
    fn_pc = "done" =>
        (fn_out.requested <=> found_critical(fn_in) >= fn_in.alert_threshold_failures)

C22_TimeoutInMilliseconds ==
    (fn_pc = "done" /\ fn_in.fn = "execute_query" /\ fn_in.timeout = None
       /\ Len(fn_out.log) = 2) =>
        fn_out.set_value = IntVal(fn_in.query_timeout * 1000)

\* seconds from the last successful login to the last call
since_login == seconds_of(fn_out.last.at - fn_out.login_at)

\* C23: a check_authentication_status call made more than auth_timeout
\* seconds after the last successful login returns False, however long ago
\* the login was.
C23_ExpiredSessionRefused ==
    (/\ fn_out.last.fn = "check_authentication_status"
     /\ fn_out.login_at >= 0
     /\ since_login > fn_in.auth_timeout) => ~fn_out.last.ret

\* C29: check_authentication_status returns True only if a login with the
\* right password succeeded and since then logout_user did not run and the
\* auth_timeout did not run out; a login with a wrong password returns
\* False and leaves authenticated and auth_timestamp as they were.
C29_TrueOnlyWhileLoggedIn ==
    /\ (fn_out.last.fn = "check_authentication_status" /\ fn_out.last.ret) =>
          /\ fn_out.login_at >= 0
          /\ ~fn_out.logged_out
          /\ since_login <= fn_in.auth_timeout
    /\ (fn_out.last.fn = "login_user" /\ ~fn_out.last.ret) =>
          fn_out.session = fn_out.last.found

\* C24: get(key) returns the value of the most recent set(key, value, ttl)
\* when it is made no later than that set plus ttl seconds and no
\* delete(key) or clear() came in between, and None in every other case.
C24_GetWithinTtl ==
    fn_out.last.fn = "get" =>
        LET set == fn_out.sets[fn_out.last.key]
        IN fn_out.last.ret = IF set # NoSet /\ fn_out.last.at <= set.at + set.ttl
                             THEN set.value ELSE None

\* C24 witness: a value set with the default ttl is returned 300 seconds
\* later
C24_Witness ==
    /\ fn_out.last.fn = "get"
    /\ fn_out.last.ret # None
    /\ fn_out.sets[fn_out.last.key].ttl = DefaultTtl
    /\ fn_out.last.at = fn_out.sets[fn_out.last.key].at + DefaultTtl

\* C30: the value map and the expiry map always hold the same keys; a get
\* that finds an expired entry leaves the key in neither, and clear leaves
\* both empty.
C30_MapsHoldSameKeys ==
    /\ DOMAIN fn_out.c.cache = DOMAIN fn_out.c.timestamps
    /\ (fn_out.last.fn = "get" /\ fn_out.last.expired) =>
          /\ fn_out.last.key \notin DOMAIN fn_out.c.cache
          /\ fn_out.last.key \notin DOMAIN fn_out.c.timestamps
    /\ fn_out.last.fn = "clear" =>
          /\ DOMAIN fn_out.c.cache = {}
          /\ DOMAIN fn_out.c.timestamps = {}

\* C30 witness: a get has just found an expired entry while the other key
\* is still cached
C30_Witness ==
    /\ fn_out.last.fn = "get"
    /\ fn_out.last.expired
    /\ DOMAIN fn_out.c.cache = CacheKeys \ {fn_out.last.key}

\* some statement reached the database
sql_sent == \E i \in 1..Len(fn_out.steps) : fn_out.steps[i].outcome.sql

\* the steps run so far are the first steps of the workflow, each once and
\* in order, each after the success of all before it; True is returned
\* only after four successful steps
steps_in_order ==
    /\ Len(fn_out.steps) <= Len(OptimizationSteps)
    /\ \A i \in 1..Len(fn_out.steps) :
          /\ fn_out.steps[i].step = OptimizationSteps[i]
          /\ i < Len(fn_out.steps) => fn_out.steps[i].outcome.ok
    /\ fn_out.ret = "True" =>
          /\ Len(fn_out.steps) = Len(OptimizationSteps)
          /\ \A i \in 1..Len(fn_out.steps) : fn_out.steps[i].outcome.ok

\* C25 as stated: no SQL reaches the database unless both scripts were
\* found and the operator typed exactly 'yes'; the steps run once each, in
\* order, after the success of the earlier ones; True only after all four.
C25_Original ==
    /\ sql_sent => /\ fn_in.dir_exists /\ fn_in.pk_scripts /\ fn_in.idx_scripts
                   /\ fn_in.answer = Typed("yes")
    /\ steps_in_order

\* C25 amended: the same, with the answer taken in any letter case and with
\* blanks around it ignored.
C25_WorkflowGuarded ==
    /\ sql_sent => /\ fn_in.dir_exists /\ fn_in.pk_scripts /\ fn_in.idx_scripts
                   /\ lower_strip(fn_in.answer) = Typed("yes")
    /\ steps_in_order

\* C25 witness: ' YES ' was typed and all four steps ran and succeeded
C25_Witness ==
    /\ fn_in.answer = [text |-> "yes", upper |-> TRUE, padded |-> TRUE]
    /\ fn_out.ret = "True"
    /\ Len(fn_out.steps) = 4
    /\ sql_sent

\* C26: for each configured flow query the target count never exceeds the
\* source count, so a flow rate that render_data_flow_check computes lies
\* between 0 and 100, whatever the tables hold.
C26_TargetWithinSource ==
    /\ fn_pc \in {"row", "done"} =>
          \A m \in 2..Len(fn_out.row) : fn_out.row[m] <= fn_out.row[1]
    /\ (fn_pc = "done" /\ fn_out.shown.shown = "Flow Rate") =>
          /\ fn_out.shown.target_count <= fn_out.shown.source_count
          /\ fn_out.shown.flow_rate.n >= 0
          /\ fn_out.shown.flow_rate.n <= 100 * fn_out.shown.flow_rate.d

\* C26 witness: the target holds a key the source lacks and a NULL, the
\* source holds two keys of which one is matched: the rate shown is 50
C26_Witness ==
    /\ fn_pc = "done"
    /\ fn_in.check = 1
    /\ fn_in.keyset["crypto_listings_latest_1000"] = {1, 2}
    /\ fn_in.keyset["1K_coins_ohlcv"] = {NullKey, 2}
    /\ fn_out.shown.shown = "Flow Rate"
    /\ fn_out.shown.flow_rate = [n |-> 100, d |-> 2]

\* C27: _get_latest_timestamp returns a datetime whenever some candidate
\* column has a non-null datetime maximum, whatever the other candidates
\* answer.
C27_DatetimeFoundIsReturned ==
    t_pc = "done" =>
        ((\E c \in 1..NCols : t_cols[c].k = "dt") => t_svc.ret.k = "dt")

\* the category the thresholds of get_freshness_status give an age in
\* hundredths of an hour, before any rounding
threshold_category(h) ==
    IF h < 100 THEN "Very Fresh (< 1h)"
    ELSE IF h < 600 THEN "Fresh (< 6h)"
    ELSE IF h < 2400 THEN "Recent (< 24h)"
    ELSE IF h < 7200 THEN "Stale (2-3 days)"
    ELSE IF h < 16800 THEN "Old (3-7 days)"
    ELSE "Very Old (> 7 days)"

\* C28: the freshness label of a stage is the threshold category of the exact
\* age now - t of its latest timestamp t; rounding the age to one decimal
\* hour moves no age across a threshold.
C28_RoundingKeepsCategory ==
    (fn_pc = "done" /\ fn_in.latest_update.k = "dt") =>
        fn_out.stage_fresh = threshold_category(fn_in.now - fn_in.latest_update.v)

====
